---- MODULE Spec2Model ----
(***************************************************************************)
(* The data-preparation pipeline of the nutrition dashboard                *)
(* (src/backend.py) and the module-level run of src/app.py.                *)
(*                                                                         *)
(* A DataFrame is a record [cols, dtype, rows]: cols is the set of column   *)
(* names, dtype[c] the dtype of column c, rows the sequence of rows in     *)
(* frame order, each row a record [index |-> its pandas index label,       *)
(* cell |-> [cols -> value]].  A missing cell (NaN, NaT, <NA>) is the      *)
(* empty sequence.  A cell of an "object" column is a string, written as   *)
(* its sequence of characters (read_csv never yields an empty string: an   *)
(* empty field is NaN); a present cell n of a "datetime64", "Int64" or     *)
(* "float64" column is <<n>>.  A datetime is abbreviated to its day        *)
(* number.  The scores of ADHERENCE_MAP and SLEEP_BIN_MAP are counted in   *)
(* halves (1.0 is 2, 4.5 is 9) so that every number is an integer; a mean  *)
(* is the pair of the sum and the count of the values it averages.         *)
(***************************************************************************)
EXTENDS Integers, Sequences, FiniteSets, TLC

\* pc is the position of the run; arg and ret are the arguments and the result
\* of a single backend call; the others are the module-level names of app.py
\* (files stands for the three CSV files as read_csv finds them, error for
\* what ended the run early: st.stop() or an uncaught exception).
VARIABLES pc, arg, ret, files, intake_df, weekly_df, weekly_available, duplicates_df,
          merged_df, weekly_clean, total_weight_lost, member_email, summary, snap,
          action_list, error

appVars == <<files, intake_df, weekly_df, weekly_available, duplicates_df, merged_df,
             weekly_clean, total_weight_lost, member_email, summary, snap, action_list,
             error>>

vars == <<pc, arg, ret, appVars>>

\* ------------------------------------------------------------------ cells

NaN == <<>>

Some(x) == <<x>>

IsNA(c) == c = <<>>

NotNA(c) == c # <<>>

Val(c) == c[1]

\* --------------------------------------------------------------- strings

IsSpace(ch) == ch = " "

RECURSIVE LStrip(_)
LStrip(s) == IF Len(s) > 0 /\ IsSpace(Head(s)) THEN LStrip(Tail(s)) ELSE s

RECURSIVE RStrip(_)
RStrip(s) ==
    IF Len(s) > 0 /\ IsSpace(s[Len(s)]) THEN RStrip(SubSeq(s, 1, Len(s) - 1)) ELSE s

\* str.strip(): leading and trailing whitespace removed.
Strip(s) == RStrip(LStrip(s))

LowerChar(ch) ==
    CASE ch = "A" -> "a"
      [] ch = "B" -> "b"
      [] ch = "C" -> "c"
      [] OTHER -> ch

\* str.lower()
Lower(s) == [i \in 1..Len(s) |-> LowerChar(s[i])]

\* str.replace(pat, "", regex=False): every non-overlapping occurrence of the
\* literal pat, scanning left to right, is removed.
RECURSIVE Replace(_, _)
Replace(s, pat) ==
    IF Len(s) < Len(pat) THEN s
    ELSE IF SubSeq(s, 1, Len(pat)) = pat
         THEN Replace(SubSeq(s, Len(pat) + 1, Len(s)), pat)
         ELSE <<Head(s)>> \o Replace(Tail(s), pat)

Digits == <<"0", "1", "2", "3", "4", "5", "6", "7", "8", "9">>

IsDigit(ch) == \E d \in 1..10 : Digits[d] = ch

DigitVal(ch) == (CHOOSE d \in 1..10 : Digits[d] = ch) - 1

AllDigits(s) == \A i \in 1..Len(s) : IsDigit(s[i])

RECURSIVE DigitsVal(_)
DigitsVal(s) ==
    IF Len(s) = 0 THEN 0
    ELSE 10 * DigitsVal(SubSeq(s, 1, Len(s) - 1)) + DigitVal(s[Len(s)])

RECURSIVE NatToStr(_)
NatToStr(n) == IF n < 10 THEN <<Digits[n + 1]>> ELSE NatToStr(n \div 10) \o <<Digits[(n % 10) + 1]>>

\* str(n) of an integer.
IntToStr(n) == IF n < 0 THEN <<"-">> \o NatToStr(-n) ELSE NatToStr(n)

\* Series.astype(str) on an object column: a missing cell becomes "nan".
AsStrObject(c) == IF IsNA(c) THEN <<"n", "a", "n">> ELSE c

\* Series.astype(str) on an Int64 column: <NA> becomes "<NA>".
AsStrInt64(c) == IF IsNA(c) THEN <<"<", "N", "A", ">">> ELSE IntToStr(Val(c))

FirstDot(s) == IF \E i \in 1..Len(s) : s[i] = "."
               THEN CHOOSE i \in 1..Len(s) : s[i] = "." /\ \A j \in 1..(i - 1) : s[j] # "."
               ELSE 0

\* The unsigned decimal literals pd.to_numeric accepts: digits, optionally a
\* point and more digits, at least one digit in all.
UnsignedNumber(s) ==
    LET d == FirstDot(s)
        whole == IF d = 0 THEN s ELSE SubSeq(s, 1, d - 1)
        frac == IF d = 0 THEN <<>> ELSE SubSeq(s, d + 1, Len(s))
    IN  IF AllDigits(whole) /\ AllDigits(frac) /\ Len(whole) + Len(frac) > 0
        THEN [kind |-> "num", whole |-> DigitsVal(whole), integral |-> DigitsVal(frac) = 0]
        ELSE [kind |-> "nan", whole |-> 0, integral |-> FALSE]

\* pd.to_numeric(s, errors="coerce") of one string: a float, or NaN when the
\* string is no number.  whole is the value truncated toward zero, integral
\* says whether the value is a whole number.
ToNumeric(s) ==
    IF Len(s) = 0 THEN [kind |-> "nan", whole |-> 0, integral |-> FALSE]
    ELSE IF Head(s) = "-"
         THEN LET u == UnsignedNumber(Tail(s))
              IN  [kind |-> u.kind, whole |-> 0 - u.whole, integral |-> u.integral]
         ELSE IF Head(s) = "+" THEN UnsignedNumber(Tail(s))
         ELSE UnsignedNumber(s)

\* ---------------------------------------------------- parse_week_number

WeekLiteral == <<"W", "e", "e", "k">>

\* Lines 38-39 on one label already converted by astype(str).
CleanLabel(s) == Strip(Replace(Strip(s), WeekLiteral))

\* Line 40, astype("Int64"): a float column converts only if every present value
\* is a whole number; otherwise TypeError (cannot safely cast non-equivalent
\* float64 to int64) for the whole column.
AsInt64(nums) ==
    IF \E i \in 1..Len(nums) : nums[i].kind = "num" /\ ~nums[i].integral
    THEN [exc |-> "TypeError", value |-> <<>>]
    ELSE [exc |-> "none",
          value |-> [i \in 1..Len(nums) |->
                        IF nums[i].kind = "num" THEN Some(nums[i].whole) ELSE NaN]]

\* parse_week_number(series): strs is series.astype(str).
parse_week_number(strs) ==
    AsInt64([i \in 1..Len(strs) |-> ToNumeric(CleanLabel(strs[i]))])

\* ------------------------------------------------------------ DataFrame

EmptyFrame == [cols |-> {}, dtype |-> <<>>, rows |-> <<>>]

\* pd.DataFrame(columns=names): no rows, the named columns.
EmptyFrameWith(names) == [cols |-> names, dtype |-> [c \in names |-> "object"], rows |-> <<>>]

NRows(df) == Len(df.rows)

\* DataFrame.empty: no rows or no columns.
IsEmpty(df) == NRows(df) = 0 \/ df.cols = {}

Col(df, c) == [i \in 1..NRows(df) |-> df.rows[i].cell[c]]

\* df[c] = vals: column c, of dtype dt, added or replaced, rows and index kept.
SetCol(df, c, dt, vals) ==
    [cols |-> df.cols \cup {c},
     dtype |-> [k \in df.cols \cup {c} |-> IF k = c THEN dt ELSE df.dtype[k]],
     rows |-> [i \in 1..NRows(df) |->
                 [index |-> df.rows[i].index,
                  cell |-> [k \in df.cols \cup {c} |->
                               IF k = c THEN vals[i] ELSE df.rows[i].cell[k]]]]]

\* df[mask]: the rows whose mask is TRUE, in frame order.
RECURSIVE SelectRows(_, _)
SelectRows(rows, mask) ==
    IF Len(rows) = 0 THEN <<>>
    ELSE LET n == Len(rows)
             init == SelectRows(SubSeq(rows, 1, n - 1), SubSeq(mask, 1, n - 1))
         IN  IF mask[n] THEN Append(init, rows[n]) ELSE init

Filter(df, mask) == [df EXCEPT !.rows = SelectRows(df.rows, mask)]

Perms(n) == { p \in [1..n -> 1..n] : \A i, j \in 1..n : p[i] = p[j] => i = j }

Take(rows, p) == [i \in 1..Len(rows) |-> rows[p[i]]]

\* The row orders Series.argsort may produce for a single sort key (nargsort):
\* present keys in key order, ascending or descending, missing keys last in
\* their original order.  The default kind="quicksort" is not stable, so rows
\* with equal keys may come out in either order.
SortValuesOrders(rows, c, ascending) ==
    { p \in Perms(Len(rows)) :
        \A i, j \in 1..Len(rows) : i < j =>
            LET a == rows[p[i]].cell[c]
                b == rows[p[j]].cell[c]
            IN  /\ IsNA(a) => IsNA(b) /\ p[i] < p[j]
                /\ (NotNA(a) /\ NotNA(b)) =>
                       IF ascending THEN Val(a) <= Val(b) ELSE Val(a) >= Val(b) }

\* sort_index(): rows by index label (labels are unique).
SortIndexOrder(rows) ==
    CHOOSE p \in Perms(Len(rows)) :
        \A i, j \in 1..Len(rows) : i < j => rows[p[i]].index <= rows[p[j]].index

\* Character order of the strings that occur (code-point order).
Ascii == <<" ", "+", "-", ".", "0", "1", "2", "3", "4", "5", "6", "7", "8", "9",
           "<", ">", "@", "A", "B", "C", "D", "M", "N", "S", "T", "V", "W",
           "a", "b", "c", "d", "e", "f", "k", "m", "n", "o", "r", "s", "t", "w", "y">>

CharCode(ch) == CHOOSE i \in 1..Len(Ascii) : Ascii[i] = ch

RECURSIVE StrLess(_, _)
StrLess(s, t) ==
    IF Len(t) = 0 THEN FALSE
    ELSE IF Len(s) = 0 THEN TRUE
    ELSE IF Head(s) = Head(t) THEN StrLess(Tail(s), Tail(t))
    ELSE CharCode(Head(s)) < CharCode(Head(t))

\* ---------------------------------------------- dedupe_weekly_keep_latest

KeyOf(r) == <<r.cell["email"], r.cell["week_number"]>>

\* Mutant of DupMask: duplicated(subset=[email], keep=False).
DupMaskByEmail(rows) ==
    [i \in 1..Len(rows) |->
        \E j \in 1..Len(rows) : j # i /\ rows[j].cell["email"] = rows[i].cell["email"]]

\* duplicated(subset=[email, week_number], keep=False); missing keys compare equal.
DupMask(rows) ==
    [i \in 1..Len(rows) |-> \E j \in 1..Len(rows) : j # i /\ KeyOf(rows[j]) = KeyOf(rows[i])]

\* drop_duplicates(subset=[email, week_number], keep="last")
KeepLastMask(rows) ==
    [i \in 1..Len(rows) |-> ~\E j \in (i + 1)..Len(rows) : KeyOf(rows[j]) = KeyOf(rows[i])]

Project(df, names) ==
    [cols |-> names,
     dtype |-> [k \in names |-> df.dtype[k]],
     rows |-> [i \in 1..NRows(df) |->
                 [index |-> df.rows[i].index,
                  cell |-> [k \in names |-> df.rows[i].cell[k]]]]]

\* One column's part of the duplicates report's sort: missing values last.
CellBefore(a, b, isString) ==
    IF IsNA(a) THEN FALSE
    ELSE IF IsNA(b) THEN TRUE
    ELSE IF isString THEN StrLess(a, b) ELSE Val(a) < Val(b)

DupRowBefore(r, s, hasTs) ==
    LET e1 == r.cell["email"]
        e2 == s.cell["email"]
        w1 == r.cell["week_number"]
        w2 == s.cell["week_number"]
    IN  \/ CellBefore(e1, e2, TRUE)
        \/ e1 = e2 /\ CellBefore(w1, w2, FALSE)
        \/ e1 = e2 /\ w1 = w2 /\ hasTs
             /\ CellBefore(r.cell["timestamp"], s.cell["timestamp"], FALSE)

\* sort_values([email, week_number, timestamp]) of the report: a sort on several
\* keys is a lexsort, which is stable.
SortDuplicates(rows, hasTs) ==
    LET p == CHOOSE q \in Perms(Len(rows)) :
                 \A i, j \in 1..Len(rows) : i < j =>
                     \/ DupRowBefore(rows[q[i]], rows[q[j]], hasTs)
                     \/ ~DupRowBefore(rows[q[j]], rows[q[i]], hasTs) /\ q[i] < q[j]
    IN  Take(rows, p)

\* The orders line 83 may leave the rows in.
DedupeSortOrders(weekly) ==
    IF "timestamp" \in weekly.cols
    THEN SortValuesOrders(weekly.rows, "timestamp", TRUE)
    ELSE {SortIndexOrder(weekly.rows)}

\* dedupe_weekly_keep_latest(weekly), with p the order line 83's sort produced.
dedupe_weekly_keep_latest(weekly, p) ==
    IF ~({"email", "week_number"} \subseteq weekly.cols)
    THEN [weekly |-> weekly, duplicates |-> EmptyFrame]
    ELSE LET wk == [weekly EXCEPT !.rows = Take(weekly.rows, p)]
             dup_cols == {"email", "week_number", "timestamp"} \cap wk.cols
             dups == Project(Filter(wk, DupMask(wk.rows)), dup_cols)
         IN  [weekly |-> Filter(wk, KeepLastMask(wk.rows)),
              duplicates |-> [dups EXCEPT !.rows =
                                 SortDuplicates(dups.rows, "timestamp" \in wk.cols)]]

\* ------------------------------------------------------ normalize_common

\* pd.to_datetime(errors="coerce") of one string: its day, or NaT when the
\* string is no date (a date is written as its two-digit day).
ToDatetime(s) ==
    IF Len(s) = 2 /\ AllDigits(s) /\ DigitsVal(s) >= 1 THEN Some(DigitsVal(s)) ELSE NaN

\* Series.astype(str), by the column's dtype.
AsStrCol(df, c) ==
    [i \in 1..NRows(df) |->
        IF df.dtype[c] = "object" THEN AsStrObject(df.rows[i].cell[c])
        ELSE AsStrInt64(df.rows[i].cell[c])]

NormalizeEmail(df) ==
    IF "email" \in df.cols
    THEN SetCol(df, "email", "object",
                [i \in 1..NRows(df) |-> Lower(Strip(AsStrObject(df.rows[i].cell["email"])))])
    ELSE df

NormalizeTimestamp(df) ==
    IF "timestamp" \in df.cols /\ df.dtype["timestamp"] = "object"
    THEN SetCol(df, "timestamp", "datetime64",
                [i \in 1..NRows(df) |-> ToDatetime(df.rows[i].cell["timestamp"])])
    ELSE df

normalize_common(df) == NormalizeTimestamp(NormalizeEmail(df))

\* ---------------------------------------------------------- cast_numeric

\* pd.to_numeric(errors="coerce") of one cell of an object column.
CastCell(c) ==
    LET n == ToNumeric(c)
    IN  IF n.kind = "num" THEN Some(n.whole) ELSE NaN

CastCol(df, c) ==
    IF c \in df.cols /\ df.dtype[c] = "object"
    THEN SetCol(df, c, "float64", [i \in 1..NRows(df) |-> CastCell(df.rows[i].cell[c])])
    ELSE df

RECURSIVE cast_numeric(_, _)
cast_numeric(df, names) ==
    IF Len(names) = 0 THEN df ELSE cast_numeric(CastCol(df, Head(names)), Tail(names))

IntakeNumeric ==
    <<"bodyweight_lbs_baseline", "rhr_bpm_baseline", "sleep_quality_baseline",
      "energy_baseline", "stress_baseline", "classes_per_week_baseline",
      "whole_food_days_per_week_baseline", "alcohol_days_per_week_baseline",
      "takeout_per_week_baseline">>

WeeklyNumeric ==
    <<"bodyweight_lbs_weekly", "rhr_bpm_weekly", "energy_weekly", "sleep_quality_weekly",
      "stress_weekly", "alcohol_days_weekly", "class_attended_weekly">>

\* ------------------------------------------------------ categorical maps

MostDays == <<"M", "o", "s", "t", " ", "d", "a", "y", "s">>

SomeDays == <<"S", "o", "m", "e", " ", "d", "a", "y", "s">>

VeryFewDays == <<"V", "e", "r", "y", " ", "f", "e", "w", " ", "d", "a", "y", "s">>

\* ADHERENCE_MAP, in halves; an unmapped string gives NaN.
ADHERENCE_MAP(s) ==
    CASE s = MostDays -> Some(2)
      [] s = SomeDays -> Some(1)
      [] s = VeryFewDays -> Some(0)
      [] OTHER -> NaN

\* SLEEP_BIN_MAP, in halves; an unmapped string gives NaN.
SLEEP_BIN_MAP(s) ==
    CASE s = <<"L", "e", "s", "s", " ", "t", "h", "a", "n", " ", "5">> -> Some(9)
      [] s = <<"5", "-", "6">> -> Some(11)
      [] s = <<"6", "-", "7">> -> Some(13)
      [] s = <<"7", "-", "8">> -> Some(15)
      [] s = <<"8", "+">> -> Some(17)
      [] OTHER -> NaN

MapAdherence(df) ==
    IF "nutrition_adherence_weekly" \in df.cols
    THEN SetCol(df, "adherence_score_weekly", "float64",
                [i \in 1..NRows(df) |-> ADHERENCE_MAP(df.rows[i].cell["nutrition_adherence_weekly"])])
    ELSE df

MapSleepHours(df, from, to) ==
    IF from \in df.cols
    THEN SetCol(df, to, "float64",
                [i \in 1..NRows(df) |-> SLEEP_BIN_MAP(df.rows[i].cell[from])])
    ELSE df

\* ------------------------------------------------------------- prep_data

\* The name an intake column gets in the merge: suffixes=("", "_intake").
IntakeName(c, weekly) == IF c \in weekly.cols THEN c \o "_intake" ELSE c

MergedCols(weekly, intake) ==
    weekly.cols \cup { IntakeName(c, weekly) : c \in intake.cols \ {"email"} }

\* The intake rows a weekly row joins, in intake order.
Matches(w, intake) ==
    SelectRows(intake.rows,
               [j \in 1..NRows(intake) |-> intake.rows[j].cell["email"] = w.cell["email"]])

\* One merged row: the weekly cells, then the intake row's cells (NaN when the
\* weekly row joined no intake row).
JoinRow(w, weekly, intake, matched, b) ==
    [k \in MergedCols(weekly, intake) |->
        IF k \in weekly.cols THEN w.cell[k]
        ELSE LET c == CHOOSE x \in intake.cols \ {"email"} : IntakeName(x, weekly) = k
             IN  IF matched THEN b.cell[c] ELSE NaN]

JoinedTo(w, weekly, intake) ==
    LET ms == Matches(w, intake)
    IN  IF Len(ms) = 0 THEN <<JoinRow(w, weekly, intake, FALSE, w)>>
        ELSE [j \in 1..Len(ms) |-> JoinRow(w, weekly, intake, TRUE, ms[j])]

RECURSIVE LeftJoin(_, _, _)
LeftJoin(rows, weekly, intake) ==
    IF Len(rows) = 0 THEN <<>>
    ELSE JoinedTo(Head(rows), weekly, intake) \o LeftJoin(Tail(rows), weekly, intake)

\* weekly.merge(intake, on="email", how="left", suffixes=("", "_intake")): the
\* left rows in order, each once per intake row with its email (once when there
\* is none), under a fresh RangeIndex.
Merge(weekly, intake) ==
    LET cells == LeftJoin(weekly.rows, weekly, intake)
    IN  [cols |-> MergedCols(weekly, intake),
         dtype |-> [k \in MergedCols(weekly, intake) |->
                      IF k \in weekly.cols THEN weekly.dtype[k]
                      ELSE intake.dtype[CHOOSE x \in intake.cols \ {"email"} :
                                            IntakeName(x, weekly) = k]],
         rows |-> [i \in 1..Len(cells) |-> [index |-> i - 1, cell |-> cells[i]]]]

\* Mutant of DeltaCell: a missing operand counts as 0 (sub(fill_value=0)).
DeltaCellZeroFill(w, b) ==
    Some((IF NotNA(w) THEN Val(w) ELSE 0) - (IF NotNA(b) THEN Val(b) ELSE 0))

\* weekly value - baseline value; NaN when either is missing.
DeltaCell(w, b) == IF NotNA(w) /\ NotNA(b) THEN Some(Val(w) - Val(b)) ELSE NaN

AddDelta(df, name, wcol, bcol) ==
    IF {wcol, bcol} \subseteq df.cols
    THEN SetCol(df, name, "float64",
                [i \in 1..NRows(df) |-> DeltaCell(df.rows[i].cell[wcol], df.rows[i].cell[bcol])])
    ELSE df

\* prep_data(intake, weekly): [exc, value |-> [merged, weekly]].
prep_data(intake0, weekly0) ==
    IF "week_number" \notin weekly0.cols \/ "email" \notin weekly0.cols
       \/ "email" \notin intake0.cols
    THEN [exc |-> "KeyError", value |-> <<>>]
    ELSE
    LET intake1 == normalize_common(intake0)
        weekly1 == normalize_common(weekly0)
        parsed == parse_week_number(AsStrCol(weekly1, "week_number"))
    IN  IF parsed.exc # "none" THEN [exc |-> parsed.exc, value |-> <<>>]
        ELSE
        LET weekly2 == SetCol(weekly1, "week_number", "Int64", parsed.value)
            weekly3 == MapSleepHours(MapAdherence(weekly2),
                                     "sleep_hours_weekly", "sleep_hours_numeric_weekly")
            intake2 == MapSleepHours(intake1, "sleep_hours_baseline",
                                     "sleep_hours_numeric_baseline")
            intake3 == cast_numeric(intake2, IntakeNumeric)
            weekly4 == cast_numeric(weekly3, WeeklyNumeric)
            merged0 == Merge(weekly4, intake3)
            merged1 == AddDelta(merged0, "delta_bodyweight_lbs",
                                "bodyweight_lbs_weekly", "bodyweight_lbs_baseline")
            merged2 == AddDelta(merged1, "delta_rhr_bpm", "rhr_bpm_weekly", "rhr_bpm_baseline")
            merged3 == AddDelta(merged2, "delta_energy", "energy_weekly", "energy_baseline")
        IN  [exc |-> "none", value |-> [merged |-> merged3, weekly |-> weekly4]]

\* ------------------------------------------------- cohort_weekly_summary

SummaryCols ==
    {"week_number", "n_participants", "bodyweight_mean", "rhr_mean", "energy_mean",
     "adherence_mean", "sleep_hours_mean", "stress_mean"}

\* The named aggregations of lines 165-171: output column, source column.
SummaryMeans ==
    { <<"bodyweight_mean", "bodyweight_lbs_weekly">>, <<"rhr_mean", "rhr_bpm_weekly">>,
      <<"energy_mean", "energy_weekly">>, <<"adherence_mean", "adherence_score_weekly">>,
      <<"sleep_hours_mean", "sleep_hours_numeric_weekly">>, <<"stress_mean", "stress_weekly">> }

AggSourceCols == {"email"} \cup { m[2] : m \in SummaryMeans }

RECURSIVE SumCells(_)
SumCells(cells) ==
    IF Len(cells) = 0 THEN 0
    ELSE (IF NotNA(Head(cells)) THEN Val(Head(cells)) ELSE 0) + SumCells(Tail(cells))

CountCells(cells) == Cardinality({ i \in 1..Len(cells) : NotNA(cells[i]) })

\* mean(): over the present values (skipna); NaN when there is none.
Mean(cells) ==
    IF CountCells(cells) = 0 THEN NaN
    ELSE Some([sum |-> SumCells(cells), n |-> CountCells(cells)])

\* Mutant of NUnique: count(), the present values with repetition.
NUniqueAsCount(cells) == CountCells(cells)

\* nunique(): the distinct present values.
NUnique(cells) == Cardinality({ cells[i] : i \in { j \in 1..Len(cells) : NotNA(cells[j]) } })

\* The distinct values of a set of integers in ascending order.
RECURSIVE Ascending(_)
Ascending(S) ==
    IF S = {} THEN <<>>
    ELSE LET m == CHOOSE x \in S : \A y \in S : x <= y
         IN  <<m>> \o Ascending(S \ {m})

WeekGroup(df, w) ==
    Filter(df, [i \in 1..NRows(df) |-> df.rows[i].cell["week_number"] = Some(w)])

SummaryRow(df, w) ==
    LET g == WeekGroup(df, w)
    IN  [k \in SummaryCols |->
            IF k = "week_number" THEN Some(w)
            ELSE IF k = "n_participants" THEN Some(NUnique(Col(g, "email")))
            ELSE Mean(Col(g, (CHOOSE m \in SummaryMeans : m[1] = k)[2]))]

cohort_weekly_summary(merged) ==
    IF IsEmpty(merged) \/ "week_number" \notin merged.cols
    THEN [exc |-> "none", value |-> EmptyFrameWith(SummaryCols)]
    ELSE IF ~(AggSourceCols \subseteq merged.cols)
    THEN [exc |-> "KeyError", value |-> <<>>]
    ELSE LET weeks == Ascending({ Val(merged.rows[i].cell["week_number"]) :
                                    i \in { j \in 1..NRows(merged) :
                                              NotNA(merged.rows[j].cell["week_number"]) } })
         IN  [exc |-> "none",
              value |-> [cols |-> SummaryCols,
                         dtype |-> [k \in SummaryCols |->
                                      IF k = "week_number" THEN "Int64" ELSE "float64"],
                         rows |-> [i \in 1..Len(weeks) |->
                                     [index |-> i - 1, cell |-> SummaryRow(merged, weeks[i])]]]]

\* --------------------------------------------- compute_total_weight_lost

DropNaWeek(df) ==
    Filter(df, [i \in 1..NRows(df) |-> NotNA(df.rows[i].cell["week_number"])])

\* groupby("email").tail(1) of rows in the given order: of each email, the
\* last row (a row with a missing email is in no group).
TailPerEmail(rows) ==
    SelectRows(rows,
        [i \in 1..Len(rows) |->
            /\ NotNA(rows[i].cell["email"])
            /\ ~\E j \in (i + 1)..Len(rows) : rows[j].cell["email"] = rows[i].cell["email"]])

\* Mutant of LossOf: gains netted against losses (-weight_change.sum()).
LossOfNetted(change) == IF NotNA(change) THEN 0 - Val(change) ELSE 0

\* Line 190: the sum of the losses; a gain or a missing change adds nothing.
LossOf(change) == IF NotNA(change) /\ Val(change) < 0 THEN 0 - Val(change) ELSE 0

RECURSIVE SumLosses(_)
SumLosses(rows) ==
    IF Len(rows) = 0 THEN 0
    ELSE LossOf(DeltaCell(Head(rows).cell["bodyweight_lbs_weekly"],
                          Head(rows).cell["bodyweight_lbs_baseline"]))
         + SumLosses(Tail(rows))

\* compute_total_weight_lost(merged): the values it may return, one per order
\* line 185's sort may produce.
compute_total_weight_lost(merged) ==
    IF IsEmpty(merged)
       \/ ~({"email", "week_number", "bodyweight_lbs_weekly", "bodyweight_lbs_baseline"}
              \subseteq merged.cols)
    THEN {0}
    ELSE LET rows == DropNaWeek(merged).rows
         IN  { SumLosses(TailPerEmail(Take(rows, p))) :
                 p \in SortValuesOrders(rows, "week_number", TRUE) }

\* ---------------------------------------------------------- current_week

\* current_week(merged): <<week>>, or NaN for None.
current_week(merged) ==
    IF IsEmpty(merged) \/ "week_number" \notin merged.cols THEN NaN
    ELSE LET weeks == { Val(merged.rows[i].cell["week_number"]) :
                          i \in { j \in 1..NRows(merged) :
                                    NotNA(merged.rows[j].cell["week_number"]) } }
         IN  IF weeks = {} THEN NaN
             ELSE Some(CHOOSE w \in weeks : \A v \in weeks : v <= w)

\* -------------------------------------------------- coaching_action_list

\* set(df["email"].dropna()), empty without the column.
EmailSet(df) ==
    IF "email" \in df.cols
    THEN { df.rows[i].cell["email"] : i \in { j \in 1..NRows(df) : NotNA(df.rows[j].cell["email"]) } }
    ELSE {}

\* sorted(list(S)) of a set of strings.
RECURSIVE SortedStrings(_)
SortedStrings(S) ==
    IF S = {} THEN <<>>
    ELSE LET m == CHOOSE x \in S : \A y \in S : ~StrLess(y, x)
         IN  <<m>> \o SortedStrings(S \ {m})

\* Mutant of ThisWeek: every row with a week number, not only the current week's.
ThisWeekAnyWeek(merged, wk) == DropNaWeek(merged)

ThisWeek(merged, wk) ==
    Filter(merged, [i \in 1..NRows(merged) |-> merged.rows[i].cell["week_number"] = wk])

\* Line 216: the intake emails without a row at the current week.
MissingEmails(intake, this_week) == EmailSet(intake) \ EmailSet(this_week)

\* Line 223 on one row.
RuleAdherence(r) ==
    Strip(AsStrObject(r.cell["nutrition_adherence_weekly"])) = VeryFewDays

\* Mutant of RuleStressSleep: stress > 8 in place of stress >= 8.
RuleStressSleepStrict(r) ==
    /\ NotNA(r.cell["stress_weekly"]) /\ Val(r.cell["stress_weekly"]) > 8
    /\ NotNA(r.cell["sleep_quality_weekly"]) /\ Val(r.cell["sleep_quality_weekly"]) <= 4

\* Line 227 on one row: a comparison with a missing value is False.
RuleStressSleep(r) ==
    /\ NotNA(r.cell["stress_weekly"]) /\ Val(r.cell["stress_weekly"]) >= 8
    /\ NotNA(r.cell["sleep_quality_weekly"]) /\ Val(r.cell["sleep_quality_weekly"]) <= 4

\* Lines 221-229, the cell of risk_flag in the row with index label r.index of
\* the k current-week rows: "True", "False", or "NaN".  A rule whose columns
\* are absent is pd.Series([False] * k), indexed 0..k-1, not by the rows'
\* labels: the | of two such series is False at 0..k-1 and the assignment
\* leaves NaN at every other label; mixed with a rule indexed by the rows'
\* labels, the alignment fills the gaps with False.
RiskFlag(r, cols, k) ==
    LET hasA == "nutrition_adherence_weekly" \in cols
        hasB == {"stress_weekly", "sleep_quality_weekly"} \subseteq cols
    IN  IF ~hasA /\ ~hasB
        THEN IF r.index < k THEN "False" ELSE "NaN"
        ELSE IF (hasA /\ RuleAdherence(r)) \/ (hasB /\ RuleStressSleep(r))
             THEN "True" ELSE "False"

\* coaching_action_list(intake, merged): the outcomes it may have, one per
\* order line 233's sort may produce.
coaching_action_list(intake, merged) ==
    LET wk == current_week(merged)
    IN  IF IsNA(wk)
        THEN { [exc |-> "none",
                value |-> [missing |-> EmptyFrameWith({"email"}), at_risk |-> EmptyFrame]] }
        ELSE
        LET this_week == ThisWeek(merged, wk)
            missing == SortedStrings(MissingEmails(intake, this_week))
            missing_df == [cols |-> {"email"}, dtype |-> [c \in {"email"} |-> "object"],
                           rows |-> [i \in 1..Len(missing) |->
                                       [index |-> i - 1,
                                        cell |-> [c \in {"email"} |-> missing[i]]]]]
            k == NRows(this_week)
            flags == [i \in 1..k |-> RiskFlag(this_week.rows[i], this_week.cols, k)]
            flagged == SetCol(this_week, "risk_flag", "bool",
                              [i \in 1..k |-> flags[i] = "True"])
            at_risk == Filter(flagged, [i \in 1..k |-> flags[i] = "True"])
        IN  IF \E i \in 1..k : flags[i] = "NaN"
            THEN \* line 230: a mask holding NaN is no boolean mask
                 { [exc |-> IF \A i \in 1..k : flags[i] = "NaN" THEN "KeyError" ELSE "ValueError",
                    value |-> <<>>] }
            ELSE IF "stress_weekly" \in at_risk.cols
            THEN { [exc |-> "none",
                    value |-> [missing |-> missing_df,
                               at_risk |-> [at_risk EXCEPT !.rows = Take(at_risk.rows, p)]]] :
                     p \in SortValuesOrders(at_risk.rows, "stress_weekly", FALSE) }
            ELSE { [exc |-> "none", value |-> [missing |-> missing_df, at_risk |-> at_risk]] }

\* ------------------------------------------------ member_latest_snapshot

\* member_latest_snapshot(merged, member_email): the frames it may return
\* (member is the member_email parameter).
member_latest_snapshot(merged, member) ==
    IF IsEmpty(merged) \/ "email" \notin merged.cols
    THEN { [exc |-> "none", value |-> EmptyFrame] }
    ELSE IF "week_number" \notin merged.cols
    THEN { [exc |-> "KeyError", value |-> <<>>] }
    ELSE LET df == DropNaWeek(Filter(merged,
                       [i \in 1..NRows(merged) |-> merged.rows[i].cell["email"] = member]))
         IN  IF NRows(df) = 0 THEN { [exc |-> "none", value |-> EmptyFrame] }
             ELSE { [exc |-> "none",
                     value |-> [df EXCEPT !.rows = <<Take(df.rows, p)[NRows(df)]>>]] :
                      p \in SortValuesOrders(df.rows, "week_number", TRUE) }

\* ------------------------------------------------- bounds and input sets

MaxSeries == 3

LabelSamples ==
    { <<"W", "e", "e", "k", " ", "3">>,
      <<" ", "3", " ">>,
      <<"3">>,
      <<" ", "W", "e", "e", "k", " ", "1", "2", " ">>,
      <<"T", "B", "D">>,
      NaN,
      <<"2", ".", "5">>,
      <<"3", ".", "0">>,
      <<"0">>,
      <<"-", "1">>,
      <<"w", "e", "e", "k", " ", "3">>,
      <<"3", "W", "e", "e", "k">> }

SeqsUpTo(S, n) == UNION { [1..k -> S] : k \in 0..n }

NoError == [kind |-> "none", at |-> "", exc |-> ""]

\* st.stop() at a check.
Stopped(at) == [kind |-> "stop", at |-> at, exc |-> ""]

\* An exception that leaves a backend function.
Raised(fn, exc) == [kind |-> "exception", at |-> fn, exc |-> exc]

NoFile == [status |-> "missing", frame |-> EmptyFrame]

\* The module-level names before a run, and throughout a single backend call.
AppIdle ==
    /\ files = [intake |-> NoFile, weekly |-> NoFile]
    /\ intake_df = EmptyFrame
    /\ weekly_df = EmptyFrame
    /\ weekly_available = FALSE
    /\ duplicates_df = EmptyFrame
    /\ merged_df = EmptyFrame
    /\ weekly_clean = EmptyFrame
    /\ total_weight_lost = 0
    /\ member_email = NaN
    /\ summary = EmptyFrame
    /\ snap = EmptyFrame
    /\ action_list = [missing |-> EmptyFrame, at_risk |-> EmptyFrame]
    /\ error = NoError

MaxWeeklyRows == 3

NoResult == [exc |-> "none", value |-> <<>>]

Str_a == <<"a">>

Str_b == <<"b">>

Str_c == <<"c">>

\* A frame read from cells: row i gets index label i - 1 (a RangeIndex) and
\* the cells of the columns the frame has.
MkFrame(names, dtypes, cells) ==
    [cols |-> names,
     dtype |-> [k \in names |-> dtypes[k]],
     rows |-> [i \in 1..Len(cells) |->
                 [index |-> i - 1, cell |-> [k \in names |-> cells[i][k]]]]]

Timestamps == {NaN, Some(1), Some(2)}

WeekNumbers == {NaN, Some(1), Some(2)}

\* ---------------------------------------------- SpecDedupe: one call of
\* dedupe_weekly_keep_latest on a weekly table whose week_number is parsed

DedupeCells ==
    { [email |-> e, week_number |-> w, timestamp |-> t] :
        e \in {Str_a, Str_b}, w \in WeekNumbers, t \in Timestamps }

ParsedWeeklyDtypes ==
    [email |-> "object", week_number |-> "Int64", timestamp |-> "datetime64"]

DedupeColumnSets ==
    { {"email", "week_number", "timestamp"}, {"email", "week_number"}, {"email", "timestamp"} }

InitDedupe ==
    /\ pc = "call"
    /\ AppIdle
    /\ \E names \in DedupeColumnSets, cells \in SeqsUpTo(DedupeCells, MaxWeeklyRows) :
           arg = MkFrame(names, ParsedWeeklyDtypes, cells)
    /\ ret = NoResult

CallDedupe ==
    /\ pc = "call"
    /\ \E p \in DedupeSortOrders(arg) :
           ret' = [exc |-> "none", value |-> dedupe_weekly_keep_latest(arg, p)]
    /\ pc' = "returned"
    /\ UNCHANGED <<arg, appVars>>

NextDedupe == CallDedupe

SpecDedupe == InitDedupe /\ [][NextDedupe]_vars

\* ------------------------------------------- SpecDedupeTwice: a call of
\* dedupe_weekly_keep_latest followed by a call on the table it returned

\* Weekly rows of two members at one week or without a week number.
TwiceCells == { c \in DedupeCells : c.week_number # Some(2) }

InitDedupeTwice ==
    /\ pc = "call"
    /\ AppIdle
    /\ \E names \in DedupeColumnSets, cells \in SeqsUpTo(TwiceCells, MaxWeeklyRows) :
           arg = MkFrame(names, ParsedWeeklyDtypes, cells)
    /\ ret = NoResult

\* The second call, as app.py line 81 writes it:
\* weekly_df, duplicates_df = dedupe_weekly_keep_latest(weekly_df), with
\* weekly_df the table the first call returned.
CallDedupeAgain ==
    /\ pc = "returned"
    /\ \E p \in DedupeSortOrders(ret.value.weekly) :
           LET out == dedupe_weekly_keep_latest(ret.value.weekly, p)
           IN  weekly_df' = out.weekly /\ duplicates_df' = out.duplicates
    /\ pc' = "returned_again"
    /\ UNCHANGED <<arg, ret, files, intake_df, weekly_available, merged_df, weekly_clean,
                   total_weight_lost, member_email, summary, snap, action_list, error>>

NextDedupeTwice == CallDedupe \/ CallDedupeAgain

SpecDedupeTwice == InitDedupeTwice /\ [][NextDedupeTwice]_vars

\* ------------------------------------------------ SpecPrep: one call of
\* prep_data on a raw intake table and a parsed, deduplicated weekly table

MaxIntakeRows == 2

MaxPrepRows == 2

Junk == <<"n", "/", "a">>

IntakeDtypes ==
    [timestamp |-> "object", email |-> "object", bodyweight_lbs_baseline |-> "object",
     rhr_bpm_baseline |-> "object", sleep_quality_baseline |-> "object",
     energy_baseline |-> "object", sleep_hours_baseline |-> "object"]

RequiredIntake ==
    {"timestamp", "email", "bodyweight_lbs_baseline", "rhr_bpm_baseline",
     "sleep_quality_baseline", "energy_baseline"}

\* (body weight, resting heart rate, energy) as the intake file holds them.
IntakeMetrics == { <<IntToStr(190), IntToStr(70), IntToStr(5)>>, <<NaN, IntToStr(72), NaN>> }

IntakeCells(emails) ==
    { [timestamp |-> <<"0", "1">>, email |-> e, bodyweight_lbs_baseline |-> m[1],
       rhr_bpm_baseline |-> m[2], sleep_quality_baseline |-> IntToStr(5),
       energy_baseline |-> m[3], sleep_hours_baseline |-> <<"7", "-", "8">>] :
        e \in emails, m \in IntakeMetrics }

\* The intake rows of one member, whose email is written in two ways: one row
\* with every metric, one with body weight and energy missing.
PrepIntakeCells ==
    { c \in IntakeCells({Str_a, <<"A", " ">>}) :
        IsNA(c.bodyweight_lbs_baseline) <=> (c.email # Str_a) }

WeeklyDtypes ==
    [timestamp |-> "datetime64", email |-> "object", week_number |-> "Int64",
     bodyweight_lbs_weekly |-> "object", rhr_bpm_weekly |-> "object",
     energy_weekly |-> "object", sleep_quality_weekly |-> "object",
     stress_weekly |-> "object", nutrition_adherence_weekly |-> "object",
     sleep_hours_weekly |-> "object"]

RequiredWeekly == {"timestamp", "email", "week_number"}

WeeklyMetricCols ==
    {"bodyweight_lbs_weekly", "rhr_bpm_weekly", "energy_weekly", "sleep_quality_weekly",
     "stress_weekly", "nutrition_adherence_weekly", "sleep_hours_weekly"}

\* (body weight, resting heart rate, energy) as the weekly file holds them.
WeeklyMetrics ==
    { <<IntToStr(180), IntToStr(68), NaN>>, <<NaN, Junk, IntToStr(6)>>,
      <<Junk, NaN, IntToStr(7)>> }

PrepWeeklyCells ==
    { [timestamp |-> Some(1), email |-> e, week_number |-> w,
       bodyweight_lbs_weekly |-> m[1], rhr_bpm_weekly |-> m[2], energy_weekly |-> m[3],
       sleep_quality_weekly |-> IntToStr(6), stress_weekly |-> IntToStr(7),
       nutrition_adherence_weekly |-> MostDays, sleep_hours_weekly |-> <<"7", "-", "8">>] :
        e \in {Str_a, Str_c}, w \in WeekNumbers, m \in WeeklyMetrics }

\* What dedupe_weekly_keep_latest leaves: no two rows with one key.
UniqueKeys(cells) ==
    \A i, j \in 1..Len(cells) :
        (cells[i].email = cells[j].email /\ cells[i].week_number = cells[j].week_number)
            => i = j

InitPrep ==
    /\ pc = "call"
    /\ AppIdle
    /\ \E icells \in SeqsUpTo(PrepIntakeCells, MaxIntakeRows),
          wcells \in SeqsUpTo(PrepWeeklyCells, MaxPrepRows),
          wcols \in {RequiredWeekly \cup WeeklyMetricCols, RequiredWeekly} :
           /\ UniqueKeys(wcells)
           /\ arg = [intake |-> MkFrame(RequiredIntake \cup {"sleep_hours_baseline"},
                                        IntakeDtypes, icells),
                     weekly |-> MkFrame(wcols, WeeklyDtypes, wcells)]
    /\ ret = NoResult

CallPrepData ==
    /\ pc = "call"
    /\ ret' = prep_data(arg.intake, arg.weekly)
    /\ pc' = IF ret'.exc = "none" THEN "returned" ELSE "raised"
    /\ UNCHANGED <<arg, appVars>>

NextPrep == CallPrepData

SpecPrep == InitPrep /\ [][NextPrep]_vars

\* ------------------------------------------- merged tables as prep_data
\* builds them, for the calls of the functions that read one

MergedDtypes ==
    [email |-> "object", week_number |-> "Int64", timestamp |-> "datetime64",
     bodyweight_lbs_weekly |-> "float64", bodyweight_lbs_baseline |-> "float64",
     rhr_bpm_weekly |-> "float64", energy_weekly |-> "float64",
     nutrition_adherence_weekly |-> "object", adherence_score_weekly |-> "float64",
     sleep_hours_numeric_weekly |-> "float64", stress_weekly |-> "float64",
     sleep_quality_weekly |-> "float64"]

MergedColumns == DOMAIN MergedDtypes

MergedCell(e, w, bw, base, adh, stress, sleepq) ==
    [email |-> e, week_number |-> w, timestamp |-> Some(1),
     bodyweight_lbs_weekly |-> bw, bodyweight_lbs_baseline |-> base,
     rhr_bpm_weekly |-> Some(68), energy_weekly |-> NaN,
     nutrition_adherence_weekly |-> adh, adherence_score_weekly |-> ADHERENCE_MAP(adh),
     sleep_hours_numeric_weekly |-> Some(15), stress_weekly |-> stress,
     sleep_quality_weekly |-> sleepq]

\* --------------------------------------------- SpecCohort: one call of
\* cohort_weekly_summary

MaxCohortRows == 3

CohortCells ==
    { MergedCell(e, w, bw, Some(185), MostDays, Some(7), Some(6)) :
        e \in {Str_a, Str_b}, w \in WeekNumbers, bw \in {NaN, Some(180)} }

CohortColumnSets ==
    { MergedColumns, MergedColumns \ {"week_number"}, MergedColumns \ {"stress_weekly"} }

InitCohort ==
    /\ pc = "call"
    /\ AppIdle
    /\ \E names \in CohortColumnSets, cells \in SeqsUpTo(CohortCells, MaxCohortRows) :
           arg = MkFrame(names, MergedDtypes, cells)
    /\ ret = NoResult

CallCohortWeeklySummary ==
    /\ pc = "call"
    /\ ret' = cohort_weekly_summary(arg)
    /\ pc' = IF ret'.exc = "none" THEN "returned" ELSE "raised"
    /\ UNCHANGED <<arg, appVars>>

NextCohort == CallCohortWeeklySummary

SpecCohort == InitCohort /\ [][NextCohort]_vars

\* --------------------------------------------- SpecWeight: one call of
\* compute_total_weight_lost

MaxWeightRows == 3

\* The baseline body weight joined to an email.
BaselineOf(e) == IF e = Str_a THEN Some(185) ELSE Some(190)

WeightCells ==
    { MergedCell(e, w, bw, BaselineOf(e), MostDays, Some(7), Some(6)) :
        e \in {Str_a, Str_b}, w \in WeekNumbers, bw \in {NaN, Some(180), Some(195)} }

WeightColumnSets == { MergedColumns, MergedColumns \ {"bodyweight_lbs_weekly"} }

InitWeight ==
    /\ pc = "call"
    /\ AppIdle
    /\ \E names \in WeightColumnSets, cells \in SeqsUpTo(WeightCells, MaxWeightRows) :
           arg = MkFrame(names, MergedDtypes, cells)
    /\ ret = NoResult

CallComputeTotalWeightLost ==
    /\ pc = "call"
    /\ \E total \in compute_total_weight_lost(arg) : ret' = [exc |-> "none", value |-> total]
    /\ pc' = "returned"
    /\ UNCHANGED <<arg, appVars>>

NextWeight == CallComputeTotalWeightLost

SpecWeight == InitWeight /\ [][NextWeight]_vars

\* ----------------------------------- SpecMissing and SpecAtRisk: one call
\* of coaching_action_list, on inputs that vary who submitted (SpecMissing)
\* or what the current week's rows report (SpecAtRisk)

MaxBaselineRows == 3

MaxActionRows == 3

MaxAtRiskRows == 3

ActionIntakeCells == IntakeCells({Str_a, Str_b, Str_c})

ActionIntakeFrame(cells) ==
    normalize_common(MkFrame(RequiredIntake, IntakeDtypes, cells))

MissingCells ==
    { MergedCell(e, w, Some(180), Some(185), MostDays, Some(7), Some(6)) :
        e \in {Str_a, Str_c}, w \in WeekNumbers }

InitMissing ==
    /\ pc = "call"
    /\ AppIdle
    /\ \E icells \in SeqsUpTo({ c \in ActionIntakeCells : c.bodyweight_lbs_baseline # NaN },
                              MaxBaselineRows),
          mcells \in SeqsUpTo(MissingCells, MaxActionRows) :
           arg = [intake |-> ActionIntakeFrame(icells),
                  merged |-> MkFrame(MergedColumns, MergedDtypes, mcells)]
    /\ ret = NoResult

PaddedVeryFewDays == <<" ">> \o VeryFewDays \o <<" ">>

\* (adherence, stress, sleep quality) of a weekly row.
RiskReports ==
    { <<VeryFewDays, NaN, NaN>>, <<VeryFewDays, Some(7), Some(5)>>,
      <<PaddedVeryFewDays, Some(7), Some(5)>>, <<MostDays, Some(9), Some(3)>>,
      <<MostDays, Some(7), Some(3)>>, <<MostDays, Some(8), Some(4)>>,
      <<MostDays, Some(9), Some(5)>>, <<MostDays, NaN, Some(3)>>,
      <<MostDays, Some(9), NaN>>, <<NaN, Some(9), Some(3)>>,
      <<NaN, NaN, NaN>>, <<VeryFewDays, Some(9), Some(3)>> }

AtRiskCells ==
    { MergedCell(Str_a, w, Some(180), Some(185), r[1], r[2], r[3]) :
        w \in {Some(1), Some(2)}, r \in RiskReports }

InitAtRisk ==
    /\ pc = "call"
    /\ AppIdle
    /\ \E icells \in SeqsUpTo({ c \in IntakeCells({Str_a}) : c.bodyweight_lbs_baseline # NaN }, 1),
          mcells \in SeqsUpTo(AtRiskCells, MaxAtRiskRows) :
           arg = [intake |-> ActionIntakeFrame(icells),
                  merged |-> MkFrame(MergedColumns, MergedDtypes, mcells)]
    /\ ret = NoResult

CallCoachingActionList ==
    /\ pc = "call"
    /\ \E r \in coaching_action_list(arg.intake, arg.merged) : ret' = r
    /\ pc' = IF ret'.exc = "none" THEN "returned" ELSE "raised"
    /\ UNCHANGED <<arg, appVars>>

NextAction == CallCoachingActionList

SpecMissing == InitMissing /\ [][NextAction]_vars

SpecAtRisk == InitAtRisk /\ [][NextAction]_vars

\* ------------------------------------------------ SpecParse: one call of
\* parse_week_number on a column of raw labels

InitParse ==
    /\ pc = "call"
    /\ AppIdle
    /\ arg \in SeqsUpTo(LabelSamples, MaxSeries)
    /\ ret = NoResult

CallParseWeekNumber ==
    /\ pc = "call"
    /\ ret' = parse_week_number([i \in 1..Len(arg) |-> AsStrObject(arg[i])])
    /\ pc' = IF ret'.exc = "none" THEN "returned" ELSE "raised"
    /\ UNCHANGED <<arg, appVars>>

NextParse == CallParseWeekNumber

SpecParse == InitParse /\ [][NextParse]_vars

\* ------------------------------------------------ Spec: one run of app.py
\* (the module-level script: load, validate, weekly pipeline, KPIs, tabs)

MaxPipelineRows == 2

\* validate_intake(intake), validate_weekly(weekly): the missing required columns.
validate_intake(intake) == RequiredIntake \ intake.cols

validate_weekly(weekly) == RequiredWeekly \ weekly.cols

\* A file read_csv loads: every column holds what the file holds, as text.
RawDtypes == [k \in DOMAIN WeeklyDtypes \cup DOMAIN IntakeDtypes |-> "object"]

Loaded(names, cells) == [status |-> "ok", frame |-> MkFrame(names, RawDtypes, cells)]

PipelineIntakeCells ==
    { c \in IntakeCells({Str_a, Str_b}) : NotNA(c.bodyweight_lbs_baseline) }

IntakeFiles ==
    { [status |-> "unreadable", frame |-> EmptyFrame] }
    \cup { Loaded(names, cells) :
             names \in { RequiredIntake \cup {"sleep_hours_baseline"},
                         RequiredIntake \ {"energy_baseline"} },
             cells \in SeqsUpTo(PipelineIntakeCells, MaxIntakeRows) }

WeekLabels ==
    { <<"W", "e", "e", "k", " ", "1">>, <<"2">>, <<"T", "B", "D">>, <<"2", ".", "5">> }

RawTimestamps == { <<"0", "1">>, <<"0", "2">>, <<"x">> }

\* The member "A " reports a hard week, the member "c" an easy one.
PipelineWeeklyCells ==
    { [timestamp |-> t, email |-> e, week_number |-> l,
       bodyweight_lbs_weekly |-> IF e = Str_c THEN Junk ELSE IntToStr(180),
       rhr_bpm_weekly |-> IntToStr(68), energy_weekly |-> IntToStr(6),
       sleep_quality_weekly |-> IF e = Str_c THEN IntToStr(7) ELSE IntToStr(4),
       stress_weekly |-> IF e = Str_c THEN IntToStr(3) ELSE IntToStr(8),
       nutrition_adherence_weekly |-> IF e = Str_c THEN MostDays ELSE VeryFewDays,
       sleep_hours_weekly |-> <<"7", "-", "8">>] :
        e \in { <<"A", " ">>, Str_c }, l \in WeekLabels, t \in RawTimestamps }

WeeklyFiles ==
    { [status |-> s, frame |-> EmptyFrame] : s \in {"missing", "unreadable"} }
    \cup { Loaded(names, cells) :
             names \in { RequiredWeekly \cup WeeklyMetricCols,
                         RequiredWeekly,
                         RequiredWeekly \cup {"bodyweight_lbs_weekly"},
                         (RequiredWeekly \cup WeeklyMetricCols) \ {"week_number"} },
             cells \in SeqsUpTo(PipelineWeeklyCells, MaxPipelineRows) }

Init ==
    /\ pc = "load"
    /\ arg = <<>>
    /\ ret = NoResult
    /\ \E i \in IntakeFiles, w \in WeeklyFiles : files = [intake |-> i, weekly |-> w]
    /\ intake_df = EmptyFrame
    /\ weekly_df = EmptyFrame
    /\ weekly_available = FALSE
    /\ duplicates_df = EmptyFrame
    /\ merged_df = EmptyFrame
    /\ weekly_clean = EmptyFrame
    /\ total_weight_lost = 0
    /\ member_email = NaN
    /\ summary = EmptyFrame
    /\ snap = EmptyFrame
    /\ action_list = [missing |-> EmptyFrame, at_risk |-> EmptyFrame]
    /\ error = NoError

\* app.py 41-58: the intake file must load; the weekly file may be absent or
\* unreadable, and the run goes on without it.
LoadData ==
    /\ pc = "load"
    /\ IF files.intake.status # "ok"
       THEN /\ pc' = "stopped"
            /\ error' = Stopped("load_intake")
            /\ UNCHANGED <<intake_df, weekly_df, weekly_available>>
       ELSE /\ pc' = "validate_intake"
            /\ intake_df' = files.intake.frame
            /\ weekly_available' = (files.weekly.status = "ok")
            /\ weekly_df' = IF files.weekly.status = "ok" THEN files.weekly.frame
                            ELSE EmptyFrame
            /\ UNCHANGED error
    /\ UNCHANGED <<arg, ret, files, duplicates_df, merged_df, weekly_clean,
                   total_weight_lost, member_email, summary, snap, action_list>>

\* app.py 60-65.
ValidateIntake ==
    /\ pc = "validate_intake"
    /\ intake_df' = normalize_common(intake_df)
    /\ IF validate_intake(intake_df') # {}
       THEN pc' = "stopped" /\ error' = Stopped("validate_intake")
       ELSE pc' = "validate_weekly" /\ UNCHANGED error
    /\ UNCHANGED <<arg, ret, files, weekly_df, weekly_available, duplicates_df, merged_df,
                   weekly_clean, total_weight_lost, member_email, summary, snap,
                   action_list>>

\* app.py 67-78: the weekly pipeline is entered only for a weekly table that
\* loaded and is not empty; its first step is the check of the columns.
ValidateWeekly ==
    /\ pc = "validate_weekly"
    /\ IF weekly_available /\ ~IsEmpty(weekly_df)
       THEN /\ weekly_df' = normalize_common(weekly_df)
            /\ IF validate_weekly(weekly_df') # {}
               THEN pc' = "stopped" /\ error' = Stopped("validate_weekly")
               ELSE pc' = "parse_weeks" /\ UNCHANGED error
       ELSE /\ pc' = "kpis"
            /\ UNCHANGED <<weekly_df, error>>
    /\ UNCHANGED <<arg, ret, files, intake_df, weekly_available, duplicates_df, merged_df,
                   weekly_clean, total_weight_lost, member_email, summary, snap,
                   action_list>>

\* app.py 80.
ParseWeeks ==
    /\ pc = "parse_weeks"
    /\ LET parsed == parse_week_number(AsStrCol(weekly_df, "week_number"))
       IN  IF parsed.exc # "none"
           THEN /\ pc' = "crashed"
                /\ error' = Raised("parse_week_number", parsed.exc)
                /\ UNCHANGED weekly_df
           ELSE /\ pc' = "dedupe"
                /\ weekly_df' = SetCol(weekly_df, "week_number", "Int64", parsed.value)
                /\ UNCHANGED error
    /\ UNCHANGED <<arg, ret, files, intake_df, weekly_available, duplicates_df, merged_df,
                   weekly_clean, total_weight_lost, member_email, summary, snap,
                   action_list>>

\* app.py 81.
Dedupe ==
    /\ pc = "dedupe"
    /\ \E p \in DedupeSortOrders(weekly_df) :
           LET out == dedupe_weekly_keep_latest(weekly_df, p)
           IN  weekly_df' = out.weekly /\ duplicates_df' = out.duplicates
    /\ pc' = "prep_data"
    /\ UNCHANGED <<arg, ret, files, intake_df, weekly_available, merged_df, weekly_clean,
                   total_weight_lost, member_email, summary, snap, action_list, error>>

\* app.py 82.
PrepData ==
    /\ pc = "prep_data"
    /\ LET out == prep_data(intake_df, weekly_df)
       IN  IF out.exc # "none"
           THEN /\ pc' = "crashed"
                /\ error' = Raised("prep_data", out.exc)
                /\ UNCHANGED <<merged_df, weekly_clean>>
           ELSE /\ pc' = "kpis"
                /\ merged_df' = out.value.merged
                /\ weekly_clean' = out.value.weekly
                /\ UNCHANGED error
    /\ UNCHANGED <<arg, ret, files, intake_df, weekly_df, weekly_available, duplicates_df,
                   total_weight_lost, member_email, summary, snap, action_list>>

\* app.py 90-97.
Kpis ==
    /\ pc = "kpis"
    /\ total_weight_lost' \in compute_total_weight_lost(merged_df)
    /\ pc' = "select_member"
    /\ UNCHANGED <<arg, ret, files, intake_df, weekly_df, weekly_available, duplicates_df,
                   merged_df, weekly_clean, member_email, summary, snap, action_list,
                   error>>

AllMembers == <<"(All members)">>

\* app.py 104-109: the coach picks one option of the select box.
SelectMember ==
    /\ pc = "select_member"
    /\ IF ~IsEmpty(merged_df) /\ "email" \in merged_df.cols
       THEN member_email' \in {AllMembers} \cup EmailSet(merged_df)
       ELSE member_email' = NaN
    /\ pc' = "trends"
    /\ UNCHANGED <<arg, ret, files, intake_df, weekly_df, weekly_available, duplicates_df,
                   merged_df, weekly_clean, total_weight_lost, summary, snap, action_list,
                   error>>

\* if member_email and member_email != "(All members)"
MemberSelected == member_email # NaN /\ member_email # AllMembers

\* The ways the Trends tab (app.py 117-185) may end.
TrendsOutcomes ==
    LET view_df == IF MemberSelected
                   THEN Filter(merged_df, [i \in 1..NRows(merged_df) |->
                                             merged_df.rows[i].cell["email"] = member_email])
                   ELSE merged_df
        s == cohort_weekly_summary(view_df)
    IN  IF s.exc # "none"
        THEN { [error |-> Raised("cohort_weekly_summary", s.exc),
                summary |-> summary, snap |-> snap] }
        ELSE IF ~MemberSelected
        THEN { [error |-> NoError, summary |-> s.value, snap |-> snap] }
        ELSE { IF m.exc # "none"
               THEN [error |-> Raised("member_latest_snapshot", m.exc),
                     summary |-> s.value, snap |-> snap]
               ELSE [error |-> NoError, summary |-> s.value, snap |-> m.value] :
                 m \in member_latest_snapshot(merged_df, member_email) }

Trends ==
    /\ pc = "trends"
    /\ IF IsEmpty(merged_df)
       THEN pc' = "action_list" /\ UNCHANGED <<summary, snap, error>>
       ELSE \E o \in TrendsOutcomes :
                /\ summary' = o.summary
                /\ snap' = o.snap
                /\ error' = o.error
                /\ pc' = IF o.error = NoError THEN "action_list" ELSE "crashed"
    /\ UNCHANGED <<arg, ret, files, intake_df, weekly_df, weekly_available, duplicates_df,
                   merged_df, weekly_clean, total_weight_lost, member_email, action_list>>

\* app.py 226-258.
ActionList ==
    /\ pc = "action_list"
    /\ IF IsEmpty(merged_df) \/ IsNA(current_week(merged_df))
       THEN pc' = "done" /\ UNCHANGED <<action_list, error>>
       ELSE \E o \in coaching_action_list(intake_df, merged_df) :
                IF o.exc # "none"
                THEN /\ pc' = "crashed"
                     /\ error' = Raised("coaching_action_list", o.exc)
                     /\ UNCHANGED action_list
                ELSE /\ pc' = "done"
                     /\ action_list' = o.value
                     /\ UNCHANGED error
    /\ UNCHANGED <<arg, ret, files, intake_df, weekly_df, weekly_available, duplicates_df,
                   merged_df, weekly_clean, total_weight_lost, member_email, summary, snap>>

Next ==
    \/ LoadData
    \/ ValidateIntake
    \/ ValidateWeekly
    \/ ParseWeeks
    \/ Dedupe
    \/ PrepData
    \/ Kpis
    \/ SelectMember
    \/ Trends
    \/ ActionList

Spec == Init /\ [][Next]_vars

\* ================================================================ claims

RowsWithKey(rows, k) == { i \in 1..Len(rows) : KeyOf(rows[i]) = k }

\* The latest timestamp of a set of rows: the greatest present one.
IsLatestOf(r, group) ==
    \A g \in group :
        NotNA(g.cell["timestamp"]) =>
            NotNA(r.cell["timestamp"]) /\ Val(r.cell["timestamp"]) >= Val(g.cell["timestamp"])

\* C1: after dedupe_weekly_keep_latest on a table with email and week_number,
\* every (email, week_number) key of the input has exactly one surviving row,
\* that row is an unchanged row of its key group, and it carries the latest
\* timestamp of the group.
C1_LatestWins ==
    (pc = "returned" /\ {"email", "week_number", "timestamp"} \subseteq arg.cols) =>
        \A i \in 1..NRows(arg) :
            LET k == KeyOf(arg.rows[i])
                group == { arg.rows[g] : g \in RowsWithKey(arg.rows, k) }
                out == ret.value.weekly.rows
                surv == RowsWithKey(out, k)
            IN  /\ Cardinality(surv) = 1
                /\ \A j \in surv : out[j] \in group /\ IsLatestOf(out[j], group)

\* What C10 says one label parses to: surrounding whitespace and an optional
\* leading "Week" dropped, an integer gives that integer, anything else null.
ClaimedWeekNumber(label) ==
    IF IsNA(label) THEN NaN
    ELSE LET t == Strip(label)
             u == IF Len(t) >= 4 /\ SubSeq(t, 1, 4) = WeekLiteral
                  THEN Strip(SubSeq(t, 5, Len(t))) ELSE t
             n == ToNumeric(u)
         IN  IF n.kind = "num" /\ n.integral THEN Some(n.whole) ELSE NaN

\* C10: parse_week_number never raises, and each label parses on its own to its
\* integer or, when it is not an integer label, to null.
C10_ParseTotal ==
    pc # "call" =>
        /\ pc = "returned"
        /\ Len(ret.value) = Len(arg)
        /\ \A i \in 1..Len(arg) : ret.value[i] = ClaimedWeekNumber(arg[i])

\* C2: every row of the deduplicated weekly table appears exactly once in the
\* merged table prep_data returns, and the merged table has as many rows.
C2_JoinCompleteness ==
    pc = "returned" =>
        /\ NRows(ret.value.merged) = NRows(arg.weekly)
        /\ \A i \in 1..NRows(arg.weekly) :
               Cardinality(RowsWithKey(ret.value.merged.rows, KeyOf(arg.weekly.rows[i]))) = 1

\* The delta the claim gives a merged row for one metric: weekly minus
\* baseline from the cells of the input tables, missing when either is.
ClaimedDelta(wraw, braw) ==
    LET w == ToNumeric(wraw)
        b == ToNumeric(braw)
    IN  IF w.kind = "num" /\ b.kind = "num" THEN Some(w.whole - b.whole) ELSE NaN

DeltaNames ==
    { <<"delta_bodyweight_lbs", "bodyweight_lbs_weekly", "bodyweight_lbs_baseline">>,
      <<"delta_rhr_bpm", "rhr_bpm_weekly", "rhr_bpm_baseline">>,
      <<"delta_energy", "energy_weekly", "energy_baseline">> }

EmailOf(raw) == Lower(Strip(AsStrObject(raw)))

\* C9: in every merged row each delta is the weekly value minus the value of
\* the baseline row joined to it by email, and is missing (not zero) when
\* either value is missing or the weekly row matches no baseline row.
C9_DeltaCorrect ==
    pc = "returned" =>
        \A j \in 1..NRows(ret.value.merged) :
            LET m == ret.value.merged.rows[j].cell
                ws == { i \in 1..NRows(arg.weekly) : KeyOf(arg.weekly.rows[i]) = <<m["email"], m["week_number"]>> }
                bs == { i \in 1..NRows(arg.intake) : EmailOf(arg.intake.rows[i].cell["email"]) = m["email"] }
            IN  \E i \in ws :
                  LET w == arg.weekly.rows[i].cell
                  IN  \A d \in DeltaNames :
                        IF d[2] \in arg.weekly.cols
                        THEN /\ d[1] \in ret.value.merged.cols
                             /\ IF bs = {}
                                THEN IsNA(m[d[1]])
                                ELSE \E b \in bs :
                                       /\ m[d[3]] = CastCell(arg.intake.rows[b].cell[d[3]])
                                       /\ m[d[1]] = ClaimedDelta(w[d[2]], arg.intake.rows[b].cell[d[3]])
                        ELSE d[1] \notin ret.value.merged.cols

\* C9's case: a row with weekly 180 against baseline 190, and a row that has a
\* weekly value but no baseline record.
C9_Witness ==
    /\ pc = "returned"
    /\ "delta_bodyweight_lbs" \in ret.value.merged.cols
    /\ \E j, k \in 1..NRows(ret.value.merged) :
          /\ ret.value.merged.rows[j].cell["delta_bodyweight_lbs"] = Some(0 - 10)
          /\ ret.value.merged.rows[k].cell["email"] = Str_c
          /\ NotNA(ret.value.merged.rows[k].cell["bodyweight_lbs_weekly"])
          /\ IsNA(ret.value.merged.rows[k].cell["delta_bodyweight_lbs"])

PresentWeeks(df) ==
    { Val(df.rows[i].cell["week_number"]) :
        i \in { j \in 1..NRows(df) : NotNA(df.rows[j].cell["week_number"]) } }

RowsAtWeek(df, w) == { i \in 1..NRows(df) : df.rows[i].cell["week_number"] = Some(w) }

RECURSIVE SumOver(_, _, _)
SumOver(I, df, c) ==
    IF I = {} THEN 0
    ELSE LET i == CHOOSE x \in I : TRUE
         IN  Val(df.rows[i].cell[c]) + SumOver(I \ {i}, df, c)

\* The mean of column c over the rows I, ignoring missing values.
ClaimedMean(I, df, c) ==
    LET present == { i \in I : NotNA(df.rows[i].cell[c]) }
    IN  IF present = {} THEN NaN
        ELSE Some([sum |-> SumOver(present, df, c), n |-> Cardinality(present)])

\* C8: cohort_weekly_summary returns one row per distinct non-null week_number
\* in ascending order, with the number of distinct emails and the means over
\* the present values of that week's rows; an empty table or one without
\* week_number gives zero rows with the expected columns.
C8_CohortSummary ==
    pc = "returned" =>
        LET out == ret.value
        IN  /\ out.cols = SummaryCols
            /\ IF IsEmpty(arg) \/ "week_number" \notin arg.cols
               THEN NRows(out) = 0
               ELSE /\ NRows(out) = Cardinality(PresentWeeks(arg))
                    /\ \A i, j \in 1..NRows(out) :
                           i < j => Val(out.rows[i].cell["week_number"])
                                      < Val(out.rows[j].cell["week_number"])
                    /\ \A i \in 1..NRows(out) :
                           LET w == Val(out.rows[i].cell["week_number"])
                               I == RowsAtWeek(arg, w)
                           IN  /\ w \in PresentWeeks(arg)
                               /\ out.rows[i].cell["n_participants"]
                                    = Some(Cardinality({ arg.rows[r].cell["email"] : r \in I }))
                               /\ \A m \in SummaryMeans :
                                      out.rows[i].cell[m[1]] = ClaimedMean(I, arg, m[2])

\* C8's case: two weeks, one of them with the same email twice and with a
\* missing body weight beside a present one, and a row without a week.
C8_Witness ==
    /\ pc = "returned"
    /\ NRows(ret.value) = 2
    /\ \E i, j, k \in 1..NRows(arg) :
          /\ i # j
          /\ arg.rows[i].cell["week_number"] = arg.rows[j].cell["week_number"]
          /\ arg.rows[i].cell["email"] = arg.rows[j].cell["email"]
          /\ IsNA(arg.rows[i].cell["bodyweight_lbs_weekly"])
          /\ NotNA(arg.rows[j].cell["bodyweight_lbs_weekly"])
          /\ arg.rows[k].cell["week_number"] # arg.rows[i].cell["week_number"]

C8_WitnessEmpty ==
    /\ pc = "returned"
    /\ NRows(arg) = 0
    /\ NRows(ret.value) = 0

\* The emails with a row that has a week number.
Identities(df) ==
    { df.rows[i].cell["email"] : i \in { j \in 1..NRows(df) : NotNA(df.rows[j].cell["week_number"]) } }

\* The rows of an email at its maximum non-null week_number.
LatestRows(df, e) ==
    { i \in 1..NRows(df) :
        /\ df.rows[i].cell["email"] = e
        /\ NotNA(df.rows[i].cell["week_number"])
        /\ \A j \in 1..NRows(df) :
              (df.rows[j].cell["email"] = e /\ NotNA(df.rows[j].cell["week_number"]))
                  => Val(df.rows[j].cell["week_number"]) <= Val(df.rows[i].cell["week_number"]) }

\* max(0, baseline - weekly) of one row, 0 when either is missing.
ClaimedLoss(r) ==
    LET w == r.cell["bodyweight_lbs_weekly"]
        b == r.cell["bodyweight_lbs_baseline"]
    IN  IF NotNA(w) /\ NotNA(b) /\ Val(b) - Val(w) > 0 THEN Val(b) - Val(w) ELSE 0

RECURSIVE SumLatest(_, _, _)
SumLatest(ids, df, f) ==
    IF ids = {} THEN 0
    ELSE LET e == CHOOSE x \in ids : TRUE
         IN  ClaimedLoss(df.rows[f[e]]) + SumLatest(ids \ {e}, df, f)

WeightNeeded == {"email", "week_number", "bodyweight_lbs_weekly", "bodyweight_lbs_baseline"}

\* C7: compute_total_weight_lost returns the sum over identities of
\* max(0, baseline - weekly) at the identity's row with the maximum non-null
\* week_number; 0 on an empty table or without a needed column; never negative.
C7_TotalWeightLost ==
    pc = "returned" =>
        /\ ret.value >= 0
        /\ IF IsEmpty(arg) \/ ~(WeightNeeded \subseteq arg.cols)
           THEN ret.value = 0
           ELSE \E f \in [Identities(arg) -> 1..NRows(arg)] :
                   /\ \A e \in Identities(arg) : f[e] \in LatestRows(arg, e)
                   /\ ret.value = SumLatest(Identities(arg), arg, f)

\* C7's case: one identity whose latest delta is -5 after an earlier week with
\* a loss, another whose latest delta is a gain: the total is 5.
C7_Witness ==
    /\ pc = "returned"
    /\ ret.value = 5
    /\ \E i, j, k \in 1..NRows(arg) :
          /\ arg.rows[i].cell["email"] = Str_a /\ arg.rows[i].cell["week_number"] = Some(2)
          /\ arg.rows[i].cell["bodyweight_lbs_weekly"] = Some(180)
          /\ arg.rows[j].cell["email"] = Str_a /\ arg.rows[j].cell["week_number"] = Some(1)
          /\ arg.rows[j].cell["bodyweight_lbs_weekly"] = Some(180)
          /\ arg.rows[k].cell["email"] = Str_b /\ arg.rows[k].cell["week_number"] = Some(1)
          /\ arg.rows[k].cell["bodyweight_lbs_weekly"] = Some(195)

\* The current week the claims speak of: the maximum non-null week_number.
HasCurrentWeek(df) == PresentWeeks(df) # {}

ClaimedCurrentWeek(df) == CHOOSE w \in PresentWeeks(df) : \A v \in PresentWeeks(df) : v <= w

EmailsOf(df, I) == { df.rows[i].cell["email"] : i \in { j \in I : NotNA(df.rows[j].cell["email"]) } }

\* C5: with a current week, the missing output is exactly the baseline emails
\* minus the emails with a merged row at the current week; without one, both
\* outputs are empty.
C5_MissingSet ==
    pc = "returned" =>
        LET missing == ret.value.missing
        IN  IF HasCurrentWeek(arg.merged)
            THEN /\ { missing.rows[i].cell["email"] : i \in 1..NRows(missing) }
                      = EmailsOf(arg.intake, 1..NRows(arg.intake))
                          \ EmailsOf(arg.merged, RowsAtWeek(arg.merged, ClaimedCurrentWeek(arg.merged)))
                 /\ \A i, j \in 1..NRows(missing) :
                        missing.rows[i].cell["email"] = missing.rows[j].cell["email"] => i = j
            ELSE NRows(missing) = 0 /\ NRows(ret.value.at_risk) = 0

\* C5's case: baseline {a, b, c}, current-week submitters {a, c}, and a row of
\* an earlier week: missing is {b}.
C5_Witness ==
    /\ pc = "returned"
    /\ EmailsOf(arg.intake, 1..NRows(arg.intake)) = {Str_a, Str_b, Str_c}
    /\ HasCurrentWeek(arg.merged)
    /\ EmailsOf(arg.merged, RowsAtWeek(arg.merged, ClaimedCurrentWeek(arg.merged))) = {Str_a, Str_c}
    /\ Col(ret.value.missing, "email") = <<Str_b>>

CurrentWeekRows(df) ==
    IF HasCurrentWeek(df) THEN RowsAtWeek(df, ClaimedCurrentWeek(df)) ELSE {}

\* Rule B of the claim: stress >= 8 and sleep quality <= 4, both present.
ClaimedRuleB(r) ==
    /\ NotNA(r.cell["stress_weekly"]) /\ NotNA(r.cell["sleep_quality_weekly"])
    /\ Val(r.cell["stress_weekly"]) >= 8 /\ Val(r.cell["sleep_quality_weekly"]) <= 4

\* The at-risk output is the current-week rows picked by the rule, unchanged,
\* ordered by stress descending with the rows lacking stress last.
AtRiskIs(picked) ==
    pc = "returned" /\ HasCurrentWeek(arg.merged) =>
        LET out == ret.value.at_risk
        IN  /\ { out.rows[i].index : i \in 1..NRows(out) }
                 = { arg.merged.rows[i].index : i \in picked }
            /\ \A i, j \in 1..NRows(out) : out.rows[i].index = out.rows[j].index => i = j
            /\ \A i \in 1..NRows(out) : \E j \in 1..NRows(arg.merged) :
                   /\ arg.merged.rows[j].index = out.rows[i].index
                   /\ \A c \in arg.merged.cols : out.rows[i].cell[c] = arg.merged.rows[j].cell[c]
            /\ \A i, j \in 1..NRows(out) : i < j =>
                   LET a == out.rows[i].cell["stress_weekly"]
                       b == out.rows[j].cell["stress_weekly"]
                   IN  /\ IsNA(a) => IsNA(b)
                       /\ (NotNA(a) /\ NotNA(b)) => Val(a) >= Val(b)

ClaimedAtRiskExact(r) ==
    r.cell["nutrition_adherence_weekly"] = VeryFewDays \/ ClaimedRuleB(r)

ClaimedAtRiskTrimmed(r) ==
    (NotNA(r.cell["nutrition_adherence_weekly"])
        /\ Strip(r.cell["nutrition_adherence_weekly"]) = VeryFewDays)
    \/ ClaimedRuleB(r)

\* C6 as stated: the at-risk output is exactly the current-week rows whose
\* adherence equals "Very few days" or whose stress >= 8 and sleep quality <= 4,
\* ordered by stress descending, rows lacking stress last.
C6_AtRiskExact ==
    AtRiskIs({ i \in CurrentWeekRows(arg.merged) : ClaimedAtRiskExact(arg.merged.rows[i]) })

\* C6 with trimmed adherence: the at-risk output is exactly the current-week
\* rows whose adherence, with its surrounding whitespace removed, equals
\* "Very few days" or whose stress >= 8 and sleep quality <= 4, ordered by
\* stress descending, rows lacking stress last.
C6_AtRiskTrimmed ==
    AtRiskIs({ i \in CurrentWeekRows(arg.merged) : ClaimedAtRiskTrimmed(arg.merged.rows[i]) })

\* C6's case: a current week with a row flagged by adherence alone (stress and
\* sleep quality missing), a row flagged by stress 9 and sleep quality 3, and a
\* row with stress 7 and sleep quality 3 left out.
C6_Witness ==
    /\ pc = "returned"
    /\ NRows(arg.merged) = 3
    /\ \A i \in 1..3 : arg.merged.rows[i].cell["week_number"] = Some(2)
    /\ \E i, j, k \in 1..3 :
          /\ arg.merged.rows[i].cell["nutrition_adherence_weekly"] = VeryFewDays
          /\ IsNA(arg.merged.rows[i].cell["stress_weekly"])
          /\ arg.merged.rows[j].cell["nutrition_adherence_weekly"] = MostDays
          /\ arg.merged.rows[j].cell["stress_weekly"] = Some(9)
          /\ arg.merged.rows[j].cell["sleep_quality_weekly"] = Some(3)
          /\ arg.merged.rows[k].cell["stress_weekly"] = Some(7)
          /\ arg.merged.rows[k].cell["sleep_quality_weekly"] = Some(3)
          /\ arg.merged.rows[k].cell["nutrition_adherence_weekly"] = MostDays
          /\ NRows(ret.value.at_risk) = 2
          /\ ret.value.at_risk.rows[1].index = arg.merged.rows[j].index
          /\ ret.value.at_risk.rows[2].index = arg.merged.rows[i].index


\* ---------------------------------------------------------------- C3, C4

IntakeInvalid == files.intake.status = "ok" /\ ~(RequiredIntake \subseteq files.intake.frame.cols)

WeeklyInvalid == files.weekly.status = "ok" /\ ~(RequiredWeekly \subseteq files.weekly.frame.cols)

\* The positions of a run at or before the two checks, and the halt.
NotPastIntakeCheck == pc \in {"load", "validate_intake", "stopped"}

NotPastWeeklyCheck == pc \in {"load", "validate_intake", "validate_weekly", "stopped"}

\* C3: fail-fast validation.  In a run of the pipeline, a loaded baseline table
\* that lacks a required column halts the run at the intake check, and a loaded
\* weekly table that lacks timestamp, email or week_number (a table with zero
\* rows included) halts it at the weekly check: the run never gets past the
\* check, so neither week parsing, deduplication, merge nor any downstream
\* output (KPIs, summary, snapshot, action list) is computed.
C3_FailFast ==
    /\ IntakeInvalid =>
           /\ NotPastIntakeCheck
           /\ pc = "stopped" => error = Stopped("validate_intake")
    /\ (files.intake.status = "ok" /\ ~IntakeInvalid /\ WeeklyInvalid) =>
           /\ NotPastWeeklyCheck
           /\ pc = "stopped" => error = Stopped("validate_weekly")

\* The components the claim lists.
CoreComponents ==
    {"dedupe_weekly_keep_latest", "prep_data", "cohort_weekly_summary",
     "compute_total_weight_lost", "current_week", "coaching_action_list",
     "member_latest_snapshot"}

\* C4: no core component raises on validated input.  In a run whose baseline
\* and weekly tables passed validate_intake and validate_weekly, whatever
\* optional metric columns the weekly table lacks, none of
\* dedupe_weekly_keep_latest, prep_data, cohort_weekly_summary,
\* compute_total_weight_lost, current_week, coaching_action_list and
\* member_latest_snapshot ends the run with an exception.
C4_NoCoreRaise ==
    (~IntakeInvalid /\ ~WeeklyInvalid) =>
        ~(pc = "crashed" /\ error.kind = "exception" /\ error.at \in CoreComponents)


\* -------------------------------------------------------------------- C11

RowSet(df) == { df.rows[i] : i \in 1..NRows(df) }

\* C11: dedup idempotence.  Applying dedupe_weekly_keep_latest to the table it
\* returned removes no further row (the second result holds the same rows,
\* each once, with the same columns) and returns an empty duplicates report.
C11_DedupeIdempotent ==
    pc = "returned_again" =>
        /\ NRows(weekly_df) = NRows(ret.value.weekly)
        /\ RowSet(weekly_df) = RowSet(ret.value.weekly)
        /\ weekly_df.cols = ret.value.weekly.cols
        /\ IsEmpty(duplicates_df)

\* C11's case: the first call removed a row and reported duplicates, more than
\* one row survived, and the second call has run on the survivors.
C11_Witness ==
    /\ pc = "returned_again"
    /\ NRows(ret.value.weekly) < NRows(arg)
    /\ NRows(ret.value.duplicates) >= 2
    /\ NRows(ret.value.weekly) >= 2
    /\ NRows(weekly_df) = NRows(ret.value.weekly)

====
